---- MODULE Spec2Model ----
(***************************************************************************)
(* The readiness rendezvous of src-tauri/src/lib.rs: the command           *)
(* set_complete, the managed Mutex<SetupState> and the spawned setup job.  *)
(* Every call of set_complete is a process that walks the statements of    *)
(* the function one at a time, so that calls running on different worker   *)
(* threads interleave wherever the code lets them.                         *)
(***************************************************************************)
EXTENDS Naturals, Sequences, FiniteSets

\* Number of set_complete invocations the webview issues in one run.
MaxCalls == 3

\* The spawned setup future (lib.rs:20) and the webview's invoke contexts.
SetupJob == "setup"
UiCallers == {"ui1", "ui2"}
Callers == UiCallers \cup {SetupJob}
NoOne == "none"

\* Values of the `task: String` argument: the two known ones and another.
ValidTasks == {"frontend", "backend"}
TaskArgs == ValidTasks \cup {"typo"}

\* Window labels looked up by set_complete.
Labels == {"splashscreen", "main"}

\* Results of set_complete: Ok(()) and the Err(String) values.
Ok == "Ok"
InvalidTask == "Invalid task completed!"
SplashNotFound == "Splashscreen window not found"
CloseFailed == "Failed to close splashscreen"
MainNotFound == "Main window not found"
ShowFailed == "Failed to show main window"
TransitionErrors == {SplashNotFound, CloseFailed, MainNotFound, ShowFailed}

VARIABLES
  frontend_task,  \* SetupState.frontend_task
  backend_task,   \* SetupState.backend_task
  lock,           \* holder of the Mutex<SetupState> guard, or NoOne
  pc,             \* position of each caller
  task,           \* the task argument of each caller's current call
  splash_window,  \* local splash_window: TRUE for Some, FALSE for None
  main_window,    \* local main_window: TRUE for Some, FALSE for None
  result,         \* the value each caller's last call returned
  windows,        \* host windows: label -> "open" | "closing" | "absent"
  splashClosed,   \* a close() of the splashscreen has succeeded
  mainVisible,    \* a show() of the main window has succeeded
  transitions,    \* how often the block of lines 45-56 was entered
  dup,            \* the current call found its own flag already true
  fired,          \* the current call entered the block of lines 45-56
  log,            \* the calls that returned, in order of return
  printed,        \* what setup printed as "Setup failed: ..."
  calls           \* webview invocations so far

vars == <<frontend_task, backend_task, lock, pc, task, splash_window,
          main_window, result, windows, splashClosed, mainVisible,
          transitions, dup, fired, log, printed, calls>>

flags == <<frontend_task, backend_task>>
host == <<windows, splashClosed, mainVisible>>
locals == <<splash_window, main_window>>

\* run(): the managed state starts with both flags false; setup is spawned.
\* Which windows the host created is the host's configuration.
Init ==
  /\ frontend_task = FALSE
  /\ backend_task = FALSE
  /\ lock = NoOne
  /\ pc = [c \in Callers |-> IF c = SetupJob THEN "sleep" ELSE "idle"]
  /\ task = [c \in Callers |-> "none"]
  /\ splash_window = [c \in Callers |-> FALSE]
  /\ main_window = [c \in Callers |-> FALSE]
  /\ result = [c \in Callers |-> "none"]
  /\ windows \in [Labels -> {"open", "absent"}]
  /\ splashClosed = FALSE
  /\ mainVisible = FALSE
  /\ transitions = 0
  /\ dup = [c \in Callers |-> FALSE]
  /\ fired = [c \in Callers |-> FALSE]
  /\ log = <<>>
  /\ printed = {}
  /\ calls = 0

\* Faulty variant of Return: the guard is leaked on the error paths (only
\* the final Ok(()) releases it).
ReturnLeaksOnErr(c, r) ==
  /\ lock' = IF r = Ok THEN NoOne ELSE lock
  /\ result' = [result EXCEPT ![c] = r]
  /\ log' = Append(log, [task |-> task[c], res |-> r,
                         dup |-> dup[c], fired |-> fired[c]])
  /\ pc' = [pc EXCEPT ![c] = IF c = SetupJob THEN "done" ELSE "idle"]
  /\ printed' = IF c = SetupJob /\ r # Ok THEN printed \cup {r} ELSE printed

\* A return of set_complete with value r: the guard state_lock is dropped,
\* the caller gets r; setup prints an Err and ends (lines 67-71).
Return(c, r) ==
  /\ lock' = NoOne
  /\ result' = [result EXCEPT ![c] = r]
  /\ log' = Append(log, [task |-> task[c], res |-> r,
                         dup |-> dup[c], fired |-> fired[c]])
  /\ pc' = [pc EXCEPT ![c] = IF c = SetupJob THEN "done" ELSE "idle"]
  /\ printed' = IF c = SetupJob /\ r # Ok THEN printed \cup {r} ELSE printed

\* The webview invokes the command set_complete with some task string.
Invoke(c, t) ==
  /\ c \in UiCallers
  /\ pc[c] = "idle"
  /\ calls < MaxCalls
  /\ calls' = calls + 1
  /\ pc' = [pc EXCEPT ![c] = "lock"]
  /\ task' = [task EXCEPT ![c] = t]
  /\ dup' = [dup EXCEPT ![c] = FALSE]
  /\ fired' = [fired EXCEPT ![c] = FALSE]
  /\ UNCHANGED <<flags, host, locals, lock, result, log, printed, transitions>>

\* Faulty variant of SetupCall: setup ends after its work without reporting.
SetupSkipsReport ==
  /\ pc[SetupJob] = "sleep"
  /\ pc' = [pc EXCEPT ![SetupJob] = "done"]
  /\ UNCHANGED <<flags, host, locals, lock, task, result, log, printed,
                 transitions, dup, fired, calls>>

\* setup: after the sleep it calls set_complete(.., "backend").
SetupCall ==
  /\ pc[SetupJob] = "sleep"
  /\ pc' = [pc EXCEPT ![SetupJob] = "lock"]
  /\ task' = [task EXCEPT ![SetupJob] = "backend"]
  /\ UNCHANGED <<flags, host, locals, lock, result, log, printed,
                 transitions, dup, fired, calls>>

\* let mut state_lock = state.lock().unwrap();
Lock(c) ==
  /\ pc[c] = "lock"
  /\ lock = NoOne
  /\ lock' = c
  /\ pc' = [pc EXCEPT ![c] = "match"]
  /\ UNCHANGED <<flags, host, locals, task, result, log, printed,
                 transitions, dup, fired, calls>>

\* Faulty variant of SetFrontend: the record is rebuilt instead of updated,
\* which loses the other flag.
SetFrontendResets ==
  /\ frontend_task' = TRUE
  /\ backend_task' = FALSE

\* "frontend" => state_lock.frontend_task = true
SetFrontend ==
  /\ frontend_task' = TRUE
  /\ backend_task' = backend_task

\* Faulty variant of SetBackend: the arm sets both fields.
SetBackendSetsBoth ==
  /\ backend_task' = TRUE
  /\ frontend_task' = TRUE

\* "backend" => state_lock.backend_task = true
SetBackend ==
  /\ backend_task' = TRUE
  /\ frontend_task' = frontend_task

\* Faulty variant of Match: the default arm does not return, an unknown
\* task falls through to the check of the flags.
MatchFallsThrough(c) ==
  /\ pc[c] = "match"
  /\ \/ /\ task[c] = "frontend"
        /\ SetFrontend
        /\ dup' = [dup EXCEPT ![c] = frontend_task]
     \/ /\ task[c] = "backend"
        /\ SetBackend
        /\ dup' = [dup EXCEPT ![c] = backend_task]
     \/ /\ task[c] \notin ValidTasks
        /\ UNCHANGED <<flags, dup>>
  /\ pc' = [pc EXCEPT ![c] = "check"]
  /\ UNCHANGED <<lock, result, log, printed>>
  /\ UNCHANGED <<host, locals, task, transitions, fired, calls>>

\* Faulty variant of Match: the default arm is merged with the "backend"
\* arm, so an unknown task marks the backend as done before it is rejected.
MatchDefaultSetsBackend(c) ==
  /\ pc[c] = "match"
  /\ \/ /\ task[c] = "frontend"
        /\ SetFrontend
        /\ dup' = [dup EXCEPT ![c] = frontend_task]
        /\ pc' = [pc EXCEPT ![c] = "check"]
        /\ UNCHANGED <<lock, result, log, printed>>
     \/ /\ task[c] = "backend"
        /\ SetBackend
        /\ dup' = [dup EXCEPT ![c] = backend_task]
        /\ pc' = [pc EXCEPT ![c] = "check"]
        /\ UNCHANGED <<lock, result, log, printed>>
     \/ /\ task[c] \notin ValidTasks
        /\ SetBackend
        /\ Return(c, InvalidTask)
        /\ UNCHANGED dup
  /\ UNCHANGED <<host, locals, task, transitions, fired, calls>>

\* Faulty variant of Match: the guard is dropped right after the assignment,
\* so the check of the flags runs outside the critical section.
MatchUnlocks(c) ==
  /\ pc[c] = "match"
  /\ \/ /\ task[c] = "frontend"
        /\ SetFrontend
        /\ dup' = [dup EXCEPT ![c] = frontend_task]
        /\ pc' = [pc EXCEPT ![c] = "check"]
        /\ lock' = NoOne
        /\ UNCHANGED <<result, log, printed>>
     \/ /\ task[c] = "backend"
        /\ SetBackend
        /\ dup' = [dup EXCEPT ![c] = backend_task]
        /\ pc' = [pc EXCEPT ![c] = "check"]
        /\ lock' = NoOne
        /\ UNCHANGED <<result, log, printed>>
     \/ /\ task[c] \notin ValidTasks
        /\ Return(c, InvalidTask)
        /\ UNCHANGED <<flags, dup>>
  /\ UNCHANGED <<host, locals, task, transitions, fired, calls>>

\* match task.as_str() { ... }
Match(c) ==
  /\ pc[c] = "match"
  /\ \/ /\ task[c] = "frontend"
        /\ SetFrontend
        /\ dup' = [dup EXCEPT ![c] = frontend_task]
        /\ pc' = [pc EXCEPT ![c] = "check"]
        /\ UNCHANGED <<lock, result, log, printed>>
     \/ /\ task[c] = "backend"
        /\ SetBackend
        /\ dup' = [dup EXCEPT ![c] = backend_task]
        /\ pc' = [pc EXCEPT ![c] = "check"]
        /\ UNCHANGED <<lock, result, log, printed>>
     \/ /\ task[c] \notin ValidTasks
        /\ Return(c, InvalidTask)
        /\ UNCHANGED <<flags, dup>>
  /\ UNCHANGED <<host, locals, task, transitions, fired, calls>>

\* Faulty variant of BothFlags: || in place of &&.
EitherFlag == backend_task \/ frontend_task

\* state_lock.backend_task && state_lock.frontend_task
BothFlags == backend_task /\ frontend_task

\* Faulty variant of BothDone: the check sits in the "backend" arm only, so
\* a frontend report that comes last never starts the transition.
BothDoneBackendOnly(c) ==
  /\ pc[c] = "check"
  /\ \/ /\ BothFlags /\ task[c] = "backend"
        /\ pc' = [pc EXCEPT ![c] = "windows"]
        /\ transitions' = transitions + 1
        /\ fired' = [fired EXCEPT ![c] = TRUE]
        /\ UNCHANGED <<lock, result, log, printed>>
     \/ /\ ~(BothFlags /\ task[c] = "backend")
        /\ Return(c, Ok)
        /\ UNCHANGED <<transitions, fired>>
  /\ UNCHANGED <<flags, host, locals, task, dup, calls>>

\* Faulty variant of BothDone: reports are counted instead of compared, so a
\* second report of the same task passes for the missing one.
BothDoneOnRepeat(c) ==
  /\ pc[c] = "check"
  /\ \/ /\ BothFlags \/ dup[c]
        /\ pc' = [pc EXCEPT ![c] = "windows"]
        /\ transitions' = transitions + 1
        /\ fired' = [fired EXCEPT ![c] = TRUE]
        /\ UNCHANGED <<lock, result, log, printed>>
     \/ /\ ~(BothFlags \/ dup[c])
        /\ Return(c, Ok)
        /\ UNCHANGED <<transitions, fired>>
  /\ UNCHANGED <<flags, host, locals, task, dup, calls>>

\* Variant of BothDone with a once-guard: the block is entered only by the
\* first call that finds both flags true.
BothDoneOnce(c) ==
  /\ pc[c] = "check"
  /\ \/ /\ BothFlags /\ transitions = 0
        /\ pc' = [pc EXCEPT ![c] = "windows"]
        /\ transitions' = transitions + 1
        /\ fired' = [fired EXCEPT ![c] = TRUE]
        /\ UNCHANGED <<lock, result, log, printed>>
     \/ /\ ~(BothFlags /\ transitions = 0)
        /\ Return(c, Ok)
        /\ UNCHANGED <<transitions, fired>>
  /\ UNCHANGED <<flags, host, locals, task, dup, calls>>

\* Variant of BothDone that drops the guard before the close/show block.
BothDoneUnlocks(c) ==
  /\ pc[c] = "check"
  /\ \/ /\ BothFlags
        /\ pc' = [pc EXCEPT ![c] = "windows"]
        /\ transitions' = transitions + 1
        /\ fired' = [fired EXCEPT ![c] = TRUE]
        /\ lock' = NoOne
        /\ UNCHANGED <<result, log, printed>>
     \/ /\ ~BothFlags
        /\ Return(c, Ok)
        /\ UNCHANGED <<transitions, fired>>
  /\ UNCHANGED <<flags, host, locals, task, dup, calls>>

\* if <both flags> { ... } Ok(())
BothDone(c) ==
  /\ pc[c] = "check"
  /\ \/ /\ BothFlags
        /\ pc' = [pc EXCEPT ![c] = "windows"]
        /\ transitions' = transitions + 1
        /\ fired' = [fired EXCEPT ![c] = TRUE]
        /\ UNCHANGED <<lock, result, log, printed>>
     \/ /\ ~BothFlags
        /\ Return(c, Ok)
        /\ UNCHANGED <<transitions, fired>>
  /\ UNCHANGED <<flags, host, locals, task, dup, calls>>

\* app.get_webview_window(label): Some while the host still has the window.
GetWebviewWindow(label) == windows[label] # "absent"

\* let splash_window = ...; let main_window = ...;
GetWindows(c) ==
  /\ pc[c] = "windows"
  /\ splash_window' = [splash_window EXCEPT ![c] = GetWebviewWindow("splashscreen")]
  /\ main_window' = [main_window EXCEPT ![c] = GetWebviewWindow("main")]
  /\ pc' = [pc EXCEPT ![c] = "close"]
  /\ UNCHANGED <<flags, host, lock, task, result, log, printed,
                 transitions, dup, fired, calls>>

\* Faulty variant of CloseSplash: a missing splashscreen is skipped instead
\* of ending the call with an error.
CloseSplashSkipsMissing(c) ==
  /\ pc[c] = "close"
  /\ \/ /\ splash_window[c]
        /\ windows' = [windows EXCEPT !["splashscreen"] =
                         IF @ = "absent" THEN "absent" ELSE "closing"]
        /\ splashClosed' = TRUE
        /\ pc' = [pc EXCEPT ![c] = "show"]
        /\ UNCHANGED <<lock, result, log, printed, mainVisible>>
     \/ /\ splash_window[c]
        /\ Return(c, CloseFailed)
        /\ UNCHANGED host
     \/ /\ ~splash_window[c]
        /\ pc' = [pc EXCEPT ![c] = "show"]
        /\ UNCHANGED <<lock, result, log, printed, host>>
  /\ UNCHANGED <<flags, locals, task, transitions, dup, fired, calls>>

\* Faulty variant of CloseSplash: the result of close() is discarded, the
\* call goes on to the main window after a failed close.
CloseSplashIgnoresError(c) ==
  /\ pc[c] = "close"
  /\ \/ /\ splash_window[c]
        /\ windows' = [windows EXCEPT !["splashscreen"] =
                         IF @ = "absent" THEN "absent" ELSE "closing"]
        /\ splashClosed' = TRUE
        /\ pc' = [pc EXCEPT ![c] = "show"]
        /\ UNCHANGED <<lock, result, log, printed, mainVisible>>
     \/ /\ splash_window[c]
        /\ pc' = [pc EXCEPT ![c] = "show"]
        /\ UNCHANGED <<lock, result, log, printed, host>>
     \/ /\ ~splash_window[c]
        /\ Return(c, SplashNotFound)
        /\ UNCHANGED host
  /\ UNCHANGED <<flags, locals, task, transitions, dup, fired, calls>>

\* Faulty variant of CloseSplash: both lookups are tested before anything
\* is closed, so a missing main window ends the call with the splashscreen
\* still open.
CloseSplashChecksMainFirst(c) ==
  /\ pc[c] = "close"
  /\ \/ /\ splash_window[c] /\ main_window[c]
        /\ windows' = [windows EXCEPT !["splashscreen"] =
                         IF @ = "absent" THEN "absent" ELSE "closing"]
        /\ splashClosed' = TRUE
        /\ pc' = [pc EXCEPT ![c] = "show"]
        /\ UNCHANGED <<lock, result, log, printed, mainVisible>>
     \/ /\ splash_window[c] /\ main_window[c]
        /\ Return(c, CloseFailed)
        /\ UNCHANGED host
     \/ /\ splash_window[c] /\ ~main_window[c]
        /\ Return(c, MainNotFound)
        /\ UNCHANGED host
     \/ /\ ~splash_window[c]
        /\ Return(c, SplashNotFound)
        /\ UNCHANGED host
  /\ UNCHANGED <<flags, locals, task, transitions, dup, fired, calls>>

\* if let Some(splash) = splash_window { splash.close()...? } else { Err }
CloseSplash(c) ==
  /\ pc[c] = "close"
  /\ \/ /\ splash_window[c]
        /\ windows' = [windows EXCEPT !["splashscreen"] =
                         IF @ = "absent" THEN "absent" ELSE "closing"]
        /\ splashClosed' = TRUE
        /\ pc' = [pc EXCEPT ![c] = "show"]
        /\ UNCHANGED <<lock, result, log, printed, mainVisible>>
     \/ /\ splash_window[c]
        /\ Return(c, CloseFailed)
        /\ UNCHANGED host
     \/ /\ ~splash_window[c]
        /\ Return(c, SplashNotFound)
        /\ UNCHANGED host
  /\ UNCHANGED <<flags, locals, task, transitions, dup, fired, calls>>

\* Faulty variant of ShowMain: the result of show() is discarded and a
\* missing main window is ignored, the call returns Ok either way.
ShowMainIgnoresError(c) ==
  /\ pc[c] = "show"
  /\ \/ /\ main_window[c]
        /\ mainVisible' = TRUE
        /\ Return(c, Ok)
     \/ /\ main_window[c]
        /\ Return(c, Ok)
        /\ UNCHANGED mainVisible
     \/ /\ ~main_window[c]
        /\ Return(c, Ok)
        /\ UNCHANGED mainVisible
  /\ UNCHANGED <<flags, windows, splashClosed, locals, task, transitions,
                 dup, fired, calls>>

\* if let Some(main) = main_window { main.show()...? } else { Err }; Ok(())
ShowMain(c) ==
  /\ pc[c] = "show"
  /\ \/ /\ main_window[c]
        /\ mainVisible' = TRUE
        /\ Return(c, Ok)
     \/ /\ main_window[c]
        /\ Return(c, ShowFailed)
        /\ UNCHANGED mainVisible
     \/ /\ ~main_window[c]
        /\ Return(c, MainNotFound)
        /\ UNCHANGED mainVisible
  /\ UNCHANGED <<flags, windows, splashClosed, locals, task, transitions,
                 dup, fired, calls>>

\* The host's event loop removes a window whose close was requested; this
\* happens on the host's own thread, at any time after close() returned.
Destroyed ==
  /\ windows["splashscreen"] = "closing"
  /\ windows' = [windows EXCEPT !["splashscreen"] = "absent"]
  /\ UNCHANGED <<flags, lock, pc, task, locals, result, splashClosed,
                 mainVisible, transitions, dup, fired, log, printed, calls>>

Next ==
  \/ \E c \in UiCallers, t \in TaskArgs : Invoke(c, t)
  \/ SetupCall
  \/ \E c \in Callers : Lock(c)
  \/ \E c \in Callers : Match(c)
  \/ \E c \in Callers : BothDone(c)
  \/ \E c \in Callers : GetWindows(c)
  \/ \E c \in Callers : CloseSplash(c)
  \/ \E c \in Callers : ShowMain(c)
  \/ Destroyed

Spec == Init /\ [][Next]_vars

\* The steps of caller c inside set_complete.
Step(c) ==
  \/ Lock(c)
  \/ Match(c)
  \/ BothDone(c)
  \/ GetWindows(c)
  \/ CloseSplash(c)
  \/ ShowMain(c)

\* The runtime keeps polling every spawned future and every command: the
\* sleep of setup ends, and a call that can take its next step takes it.
\* Nothing obliges the webview to invoke the command.
FairSpec ==
  /\ Spec
  /\ WF_vars(SetupCall)
  /\ \A c \in Callers : WF_vars(Step(c))

TypeOK ==
  /\ frontend_task \in BOOLEAN /\ backend_task \in BOOLEAN
  /\ lock \in Callers \cup {NoOne}
  /\ pc \in [Callers -> {"sleep", "idle", "lock", "match", "check",
                         "windows", "close", "show", "done"}]
  /\ windows \in [Labels -> {"open", "closing", "absent"}]
  /\ transitions \in 0..(MaxCalls + 1)
  /\ Len(log) <= MaxCalls + 1

\* ---------------------------------------------------------------------
\* Readers of the history.
Idx == 1..Len(log)
Reported(t) == \E i \in Idx : log[i].task = t
InTransition(c) == pc[c] \in {"windows", "close", "show"}
TransitionFailed == \E i \in Idx : log[i].fired /\ log[i].res # Ok
SplashMissingSeen == \E i \in Idx : log[i].res = SplashNotFound
\* The host created both windows and none of its operations has failed.
HostHealthy ==
  /\ windows["main"] = "open"
  /\ splashClosed \/ windows["splashscreen"] = "open"
  /\ \A i \in Idx : log[i].res \notin {CloseFailed, ShowFailed}

\* C1: however many times frontend and backend are reported, the block that
\* closes the splashscreen and shows the main window is entered at most
\* once, and exactly once as soon as both have been reported.
C1_TransitionExactlyOnce ==
  /\ transitions <= 1
  /\ (Reported("frontend") /\ Reported("backend")) => transitions = 1

\* C2: a call that reports a task whose flag was already true returns Ok
\* and does not enter the close/show block.
C2_DuplicateIsNoOp ==
  \A i \in Idx : log[i].dup => (log[i].res = Ok /\ ~log[i].fired)

\* C3: while at most one flag is true the close/show block has not been
\* entered by any call, the splashscreen has not been closed and the main
\* window has not been shown.
C3_NoPrematureTransition ==
  ~(frontend_task /\ backend_task) =>
     /\ transitions = 0
     /\ \A c \in Callers : ~InTransition(c) /\ ~fired[c]
     /\ ~splashClosed
     /\ ~mainVisible
     /\ windows["splashscreen"] # "closing"

C3_Witness ==
  /\ frontend_task # backend_task
  /\ \E i \in Idx : log[i].task \in ValidTasks /\ log[i].res = Ok
  /\ windows["splashscreen"] = "open" /\ windows["main"] = "open"

\* C4: every step of a call whose task is neither "frontend" nor "backend"
\* leaves both flags, the windows and the count of transitions unchanged;
\* the call goes from taking the lock straight to its return, and what it
\* returns is the invalid-task error.
C4_InvalidTaskRejected ==
  [][\A c \in Callers :
       (task[c] \notin ValidTasks /\ pc[c] \in {"lock", "match"} /\ pc'[c] # pc[c])
         => /\ flags' = flags
            /\ host' = host
            /\ transitions' = transitions
            /\ fired'[c] = FALSE
            /\ pc'[c] \in {"match", "idle"}
            /\ pc'[c] = "idle" => result'[c] = InvalidTask]_vars

C4_Witness ==
  /\ frontend_task /\ backend_task
  /\ \E i, j \in Idx :
       /\ i < j
       /\ log[i].fired
       /\ log[j].task \notin ValidTasks
       /\ log[j].res = InvalidTask

\* C5: after exactly two calls, one reporting frontend and one reporting
\* backend, the state is the same whichever came first: both flags true,
\* the close/show block entered once, by the second call; with both windows
\* present and no failing host operation both calls returned Ok, the
\* splashscreen is closed and the main window shown (otherwise the second
\* call returned the transition's error and the main window is not shown).
OrderFB == Len(log) = 2 /\ log[1].task = "frontend" /\ log[2].task = "backend"
OrderBF == Len(log) = 2 /\ log[1].task = "backend" /\ log[2].task = "frontend"
EndState ==
  /\ frontend_task /\ backend_task
  /\ transitions = 1
  /\ ~log[1].fired /\ log[1].res = Ok
  /\ log[2].fired
  /\ HostHealthy => (log[2].res = Ok /\ splashClosed /\ mainVisible)
  /\ ~HostHealthy => (log[2].res \in TransitionErrors /\ ~mainVisible)

C5_OrderingIndependence ==
  ((OrderFB \/ OrderBF) /\ lock = NoOne) => EndState

\* Each order is reached with a healthy host and ends with the main window
\* shown.
C5_Witness == OrderFB /\ lock = NoOne /\ HostHealthy /\ mainVisible
C5_WitnessOtherOrder == OrderBF /\ lock = NoOne /\ HostHealthy /\ mainVisible

C8_SplashMissingNeverShows ==
  [][/\ \A c \in Callers :
          (pc[c] = "close" /\ ~splash_window[c] /\ pc'[c] # pc[c])
            => /\ result'[c] = SplashNotFound
               /\ pc'[c] \in {"idle", "done"}
               /\ host' = host
     /\ SplashMissingSeen => mainVisible' = mainVisible]_vars

C8_Witness ==
  /\ ~splashClosed /\ ~mainVisible /\ windows["main"] = "open"
  /\ \E i, j \in Idx :
       i < j /\ log[i].res = SplashNotFound /\ log[j].fired

\* C9: once an attempt of the close/show block has failed, no later call
\* enters the block again and the main window is not shown afterwards.
C9_FailedTransitionNotRetried ==
  [][TransitionFailed => (transitions' = transitions /\ mainVisible' = mainVisible)]_vars

\* C10: both flags start false, and a flag that is true stays true.
C10_FlagsMonotonic ==
  /\ ~frontend_task /\ ~backend_task
  /\ [][(frontend_task => frontend_task') /\ (backend_task => backend_task')]_vars

C10_Witness ==
  /\ frontend_task /\ backend_task
  /\ TransitionFailed
  /\ \E i, j \in Idx : log[i].dup /\ log[j].res = InvalidTask

\* The returned calls whose task was "frontend" or "backend", in order.
IsValidEntry(e) == e.task \in ValidTasks
ValidLog == SelectSeq(log, IsValidEntry)
Holding(c) == pc[c] \in {"match", "check", "windows", "close", "show"}

\* C11: when one or more calls with an unknown task have returned (each
\* with the invalid-task error) and then one frontend and one backend
\* report have returned, the first of the two returned Ok without entering
\* the close/show block, the second entered it, the block was entered once,
\* both flags are true, and with a healthy host the second returned Ok and
\* the main window is shown; the lock is only ever held by a call that has
\* not returned yet, so the rejected calls leave it free.
C11_InvalidThenRendezvous ==
  /\ lock # NoOne => Holding(lock)
  /\ ( /\ lock = NoOne
       /\ Len(log) >= 3
       /\ log[1].task \notin ValidTasks
       /\ Len(ValidLog) = 2
       /\ ValidLog[1].task # ValidLog[2].task )
     => /\ \A i \in Idx : log[i].task \notin ValidTasks => log[i].res = InvalidTask
        /\ frontend_task /\ backend_task
        /\ transitions = 1
        /\ ValidLog[1].res = Ok /\ ~ValidLog[1].fired
        /\ ValidLog[2].fired
        /\ HostHealthy => (ValidLog[2].res = Ok /\ splashClosed /\ mainVisible)

C11_Witness ==
  /\ lock = NoOne
  /\ Len(log) = 4
  /\ log[1].task \notin ValidTasks /\ log[2].task \notin ValidTasks
  /\ log[3].task = "frontend" /\ log[4].task = "backend"
  /\ log[4].res = Ok /\ mainVisible

\* C12: a report never enters the close/show block as long as every valid
\* report so far named the same task; after backend, backend, frontend (or
\* frontend, frontend, backend) the block was entered once, by the third
\* call.
SameTaskTwiceThenOther ==
  /\ Len(log) = 3
  /\ log[1].task \in ValidTasks
  /\ log[2].task = log[1].task
  /\ log[3].task \in ValidTasks \ {log[1].task}

C12_RepeatsDoNotFire ==
  /\ \A i \in 1..Len(ValidLog) :
       (\A j \in 1..i : ValidLog[j].task = ValidLog[1].task) => ~ValidLog[i].fired
  /\ (SameTaskTwiceThenOther /\ lock = NoOne)
       => /\ transitions = 1
          /\ ~log[1].fired /\ ~log[2].fired /\ log[3].fired
          /\ log[1].res = Ok /\ log[2].res = Ok /\ log[2].dup

C12_Witness ==
  /\ SameTaskTwiceThenOther /\ lock = NoOne
  /\ log[1].task = "backend"
  /\ log[3].res = Ok /\ mainVisible

C12_WitnessSwapped ==
  /\ SameTaskTwiceThenOther /\ lock = NoOne
  /\ log[1].task = "frontend"
  /\ log[3].res = Ok /\ mainVisible

\* C13: the step that ends setup's sleep is its call of set_complete with
\* "backend", and when setup is done that call has returned with the backend
\* flag set; and once the webview has reported frontend, eventually both
\* flags are true, the splashscreen is closed and the main window is shown,
\* unless a window is missing or a host operation has failed.
FrontendCalled == \E c \in UiCallers : pc[c] = "lock" /\ task[c] = "frontend"
Completed == frontend_task /\ backend_task /\ splashClosed /\ mainVisible
SetupReports ==
  /\ pc[SetupJob] # "sleep" => task[SetupJob] = "backend"
  /\ pc[SetupJob] = "done" => (result[SetupJob] # "none" /\ backend_task)

C13_ForwardProgress ==
  /\ []SetupReports
  /\ FrontendCalled ~> (Completed \/ ~HostHealthy)

C13_Witness ==
  /\ Completed /\ HostHealthy
  /\ pc[SetupJob] = "done" /\ result[SetupJob] = Ok
  /\ \E i \in Idx : log[i].task = "backend" /\ log[i].fired

\* The calls that turned their own flag from false to true and entered the
\* close/show block: those that returned and those still inside it.
FirstReportsFired ==
  Cardinality({i \in Idx : log[i].fired /\ ~log[i].dup})
    + Cardinality({c \in Callers : InTransition(c) /\ ~dup[c]})
Returned(c) == pc[c] \in {"idle", "done"}

\* C14: between a call's flag assignment and its check of both flags no
\* other call changes a flag, no two calls are at the assignment or the
\* check at the same time, and of the calls that set a flag that was still
\* false (the two racing first reports) at most one finds both flags true.
C14_SetAndCheckAtomic ==
  [][/\ \A c \in Callers : (pc[c] = "check" /\ pc'[c] = "check") => flags' = flags
     /\ \A c, d \in Callers :
          (c # d) => ~(pc'[c] \in {"match", "check"} /\ pc'[d] \in {"match", "check"})
     /\ FirstReportsFired' <= 1]_vars

C14_Witness ==
  /\ Len(log) = 0
  /\ \E c, d \in Callers :
       /\ pc[c] = "check" /\ task[c] = "frontend"
       /\ pc[d] = "lock" /\ task[d] = "backend"
  /\ frontend_task /\ ~backend_task

\* C15: the main window is shown only when the splashscreen has been
\* closed; a call reaches show() only from a successful close() of a
\* splashscreen it found, in the same call; a call that leaves the close
\* step by returning returns the close or not-found error and shows
\* nothing; only a call at show() that found the main window shows it.
C15_ShowOnlyAfterClose ==
  [][/\ mainVisible' => splashClosed'
     /\ \A c \in Callers :
          /\ (pc'[c] = "show" /\ pc[c] # "show")
               => (pc[c] = "close" /\ splash_window[c] /\ splashClosed')
          /\ (pc[c] = "close" /\ Returned(c)')
               => /\ result'[c] \in {CloseFailed, SplashNotFound}
                  /\ host' = host
     /\ (mainVisible' # mainVisible)
          => \E c \in Callers : pc[c] = "show" /\ main_window[c] /\ lock = c]_vars

C15_Witness ==
  /\ \E i \in Idx : log[i].res = CloseFailed
  /\ windows["splashscreen"] = "open" /\ windows["main"] = "open"
  /\ ~splashClosed /\ ~mainVisible
  /\ lock = NoOne

\* C16: a call returns the main-not-found error only from inside the
\* close/show block and only after the splashscreen was closed, and then
\* the main window is not shown; with the main window missing it is never
\* shown, and a call that found the splashscreen and closed it is at
\* show() whether or not it found the main window.
C16_MainMissingAfterSplashClosed ==
  /\ \A i \in Idx :
       log[i].res = MainNotFound => (log[i].fired /\ splashClosed /\ ~mainVisible)
  /\ windows["main"] = "absent" =>
       /\ ~mainVisible
       /\ \A i \in Idx :
            log[i].fired => log[i].res \in {SplashNotFound, CloseFailed, MainNotFound}
  /\ \A c \in Callers : pc[c] = "show" => splashClosed

C16_Witness ==
  /\ \E i \in Idx : log[i].res = MainNotFound
  /\ windows["main"] = "absent"
  /\ splashClosed /\ ~mainVisible
  /\ lock = NoOne

\* C17: a call with a valid task leaves its check for the close/show block
\* exactly when both flags are true at the check, where its own flag is the
\* one it has just set; otherwise it returns Ok. Nothing else decides: a
\* call that found its flag already true enters the block all the same.
OwnFlag(c) == IF task[c] = "frontend" THEN frontend_task ELSE backend_task

C17_FiresIffBothFlags ==
  [][\A c \in Callers :
       /\ (pc[c] = "check" /\ pc'[c] # "check")
            => /\ (pc'[c] = "windows") <=> (frontend_task /\ backend_task)
               /\ (pc'[c] = "windows") => (transitions' = transitions + 1 /\ fired'[c])
               /\ (pc'[c] # "windows") => (Returned(c)' /\ result'[c] = Ok /\ ~fired'[c])
       /\ (pc'[c] = "windows" /\ pc[c] # "windows") => pc[c] = "check"
       /\ (pc'[c] = "check") => (task[c] \in ValidTasks /\ OwnFlag(c)')]_vars

C17_Witness ==
  \E i, j \in Idx :
    /\ i < j
    /\ log[i].fired /\ ~log[i].dup
    /\ log[j].fired /\ log[j].dup

\* C18: a flag changes only in the match step of a call that reports that
\* flag's task, and that step leaves the other flag as it was.
C18_ReportFrame ==
  [][/\ (frontend_task' # frontend_task)
          => /\ \E c \in Callers :
                  pc[c] = "match" /\ pc'[c] = "check" /\ task[c] = "frontend"
             /\ backend_task' = backend_task
     /\ (backend_task' # backend_task)
          => /\ \E c \in Callers :
                  pc[c] = "match" /\ pc'[c] = "check" /\ task[c] = "backend"
             /\ frontend_task' = frontend_task]_vars

C18_Witness ==
  /\ backend_task /\ ~frontend_task
  /\ \E i, j \in Idx : log[i].task = "backend" /\ log[j].task \notin ValidTasks
  /\ lock = NoOne

\* C19: the lock is never held by a call that has returned or has not yet
\* taken it, whichever way the call returned; and again and again every
\* call has returned, so a call that waits for the lock always gets it and
\* returns.
C19_LockAlwaysReleased ==
  /\ [](\A c \in Callers : ~Holding(c) => lock # c)
  /\ []<>(\A c \in Callers : Returned(c))

\* Every kind of return has happened and the lock is free.
C19_Witness ==
  /\ lock = NoOne
  /\ \A c \in Callers : Returned(c)
  /\ \E i \in Idx : log[i].res = InvalidTask
  /\ \E i \in Idx : log[i].res = Ok /\ ~log[i].fired
  /\ \E i \in Idx : log[i].res = Ok /\ log[i].fired
  /\ \E i \in Idx : log[i].res \in TransitionErrors

====
